---- MODULE Spec2Model ----
(***************************************************************************)
(* Model of the Hades252 permutation (src/src/permutation.rs): the input   *)
(* buffer API, the concrete evaluator `result` and the constrained         *)
(* evaluator `constrain_result` over a rank-1 constraint system.           *)
(*                                                                         *)
(* Scalars are elements of Z_P for a small modulus P; only addition and    *)
(* multiplication are used by the permutation.  Sequences are 1-based,     *)
(* so the word the source calls index 0 is position 1 of a sequence; the   *)
(* evaluation logs record the source's 0-based indices.                    *)
(***************************************************************************)
EXTENDS Integers, Sequences, FiniteSets, TLC

\* ------------------------------------------------------------- bounds ----
P == 7
MaxWidth == 2
MaxFullRounds == 2
MaxPartialRounds == 2
MaxPreGates == 1

VARIABLES built, t, full_rounds, partial_rounds, data, constants, matrix, ret

vars == <<built, t, full_rounds, partial_rounds, data, constants, matrix, ret>>

\* ---------------------------------------------------------- scalars ------
Scalar == 0..(P - 1)
\* the scalars and byte strings callers feed, the longest batch and the
\* largest number of circuit variables they pass
InputScalars == {0, 1}
ByteStrings == {<<>>, <<1, 0>>}
MaxBatch == MaxWidth + 1
MaxVars == MaxWidth + 1
Add(a, b) == (a + b) % P
Mul(a, b) == (a * b) % P

Min(a, b) == IF a < b THEN a ELSE b

SeqsUpTo(S, n) == UNION {[1..k -> S] : k \in 0..n}
SeqsOfLen(S, n) == [1..n -> S]

\* Scalar::hash_from_bytes::<Sha512>: a deterministic map from a byte string
\* to one field element (the digest itself is outside the repository).
RECURSIVE hash_from_bytes_acc(_, _, _)
hash_from_bytes_acc(bytes, i, h) ==
    IF i > Len(bytes) THEN h
    ELSE hash_from_bytes_acc(bytes, i + 1, (h * 3 + bytes[i] + 2) % P)

hash_from_bytes(bytes) == hash_from_bytes_acc(bytes, 1, 5 % P)

\* ------------------------------------------- external collaborators ------
\* RoundConstants::generate(full_rounds, partial_rounds, t): a flat table of
\* exactly t * (full_rounds + partial_rounds) field elements, deterministic
\* in its three arguments.
RoundConstants_generate(fr, pr, w) ==
    [k \in 1..(w * (fr + pr)) |-> (k * k + k + 1 + w + fr) % P]

\* MDSMatrix::generate(t): a t x t field matrix, deterministic in t.
MDSMatrix_generate(w) ==
    [i \in 1..w |-> [j \in 1..w |-> ((i - 1) * w + j + 1) % P]]

RECURSIVE dot_product(_, _, _)
dot_product(row, b, n) ==
    IF n = 0 THEN 0
    ELSE Add(dot_product(row, b, n - 1), Mul(row[n], b[n]))

\* MDSMatrix::mul_vector: the linear transform; one output word per matrix
\* row, so the output length equals the width.  A row is combined with the
\* words that are present.
mul_vector(m, b) ==
    [i \in 1..Len(m) |-> dot_product(m[i], b, Min(Len(m[i]), Len(b)))]

\* ------------------------------------------------------ the instance -----
self == [t |-> t, full_rounds |-> full_rounds, partial_rounds |-> partial_rounds,
         data |-> data, constants |-> constants, matrix |-> matrix]

\* What the caller observes of the last call: the operation, its arguments,
\* Ok or the error, the returned value, the evaluation log, and for
\* constrain_result the constraint system before (pre) and after (cs) the call.
NoRet == [op |-> "none", res |-> "Ok", arg |-> <<>>, out |-> <<>>, log |-> <<>>,
          pre |-> <<>>, cs |-> <<>>]

Ret(op, res, arg, out) ==
    [op |-> op, res |-> res, arg |-> arg, out |-> out, log |-> <<>>,
     pre |-> <<>>, cs |-> <<>>]

Alive == ret.res # "Panic"

Init ==
    /\ built = FALSE
    /\ t = 0
    /\ full_rounds = 0
    /\ partial_rounds = 0
    /\ data = <<>>
    /\ constants = <<>>
    /\ matrix = <<>>
    /\ ret = NoRet

\* new testing the parity of partial_rounds
New_partial_parity(w, fr, pr) ==
    /\ ~built
    /\ IF pr % 2 # 0
       THEN /\ ret' = Ret("new", "FullRoundsOdd", <<w, fr, pr>>, <<>>)
            /\ UNCHANGED <<built, t, full_rounds, partial_rounds, data, constants, matrix>>
       ELSE /\ built' = TRUE
            /\ t' = w
            /\ full_rounds' = fr
            /\ partial_rounds' = pr
            /\ data' = <<>>
            /\ constants' = RoundConstants_generate(fr, pr, w)
            /\ matrix' = MDSMatrix_generate(w)
            /\ ret' = Ret("new", "Ok", <<w, fr, pr>>, <<>>)

\* Permutation::new
New(w, fr, pr) ==
    /\ ~built
    /\ IF fr % 2 # 0
       THEN /\ ret' = Ret("new", "FullRoundsOdd", <<w, fr, pr>>, <<>>)
            /\ UNCHANGED <<built, t, full_rounds, partial_rounds, data, constants, matrix>>
       ELSE /\ built' = TRUE
            /\ t' = w
            /\ full_rounds' = fr
            /\ partial_rounds' = pr
            /\ data' = <<>>
            /\ constants' = RoundConstants_generate(fr, pr, w)
            /\ matrix' = MDSMatrix_generate(w)
            /\ ret' = Ret("new", "Ok", <<w, fr, pr>>, <<>>)

\* input_full comparing with > instead of ==
input_full_gt(p) == Len(p.data) > p.t

\* Permutation::input_full
input_full(p) == Len(p.data) = p.t

\* width_left returning the number of buffered words
width_left_len(p) == Len(p.data)

\* Permutation::width_left (usize subtraction)
width_left(p) == p.t - Len(p.data)

\* inputs extending the buffer before it checks the capacity
Inputs_extend_first(scalars) ==
    /\ built /\ Alive
    /\ data' = data \o scalars
    /\ IF Len(scalars) + Len(data) > t
       THEN ret' = Ret("inputs", "InputFull", scalars, <<>>)
       ELSE ret' = Ret("inputs", "Ok", scalars, <<>>)
    /\ UNCHANGED <<built, t, full_rounds, partial_rounds, constants, matrix>>

\* Permutation::inputs
Inputs(scalars) ==
    /\ built /\ Alive
    /\ LET amount_to_add == Len(scalars)
           maximum_width == t
           current_width == Len(data)
       IN IF amount_to_add + current_width > maximum_width
          THEN /\ ret' = Ret("inputs", "InputFull", scalars, <<>>)
               /\ UNCHANGED data
          ELSE /\ data' = data \o scalars
               /\ ret' = Ret("inputs", "Ok", scalars, <<>>)
    /\ UNCHANGED <<built, t, full_rounds, partial_rounds, constants, matrix>>

\* input pushing the scalar before it checks the capacity
input_push_first(op, scalar) ==
    /\ data' = Append(data, scalar)
    /\ IF input_full(self)
       THEN ret' = Ret(op, "InputFull", <<scalar>>, <<>>)
       ELSE ret' = Ret(op, "Ok", <<scalar>>, <<>>)
    /\ UNCHANGED <<built, t, full_rounds, partial_rounds, constants, matrix>>

\* Permutation::input, shared by Input and InputBytes
input(op, scalar) ==
    /\ IF input_full(self)
       THEN /\ ret' = Ret(op, "InputFull", <<scalar>>, <<>>)
            /\ UNCHANGED data
       ELSE /\ data' = Append(data, scalar)
            /\ ret' = Ret(op, "Ok", <<scalar>>, <<>>)
    /\ UNCHANGED <<built, t, full_rounds, partial_rounds, constants, matrix>>

Input(scalar) ==
    /\ built /\ Alive
    /\ input("input", scalar)

\* Permutation::input_bytes
InputBytes(bytes) ==
    /\ built /\ Alive
    /\ LET scalar == hash_from_bytes(bytes)
       IN input("input_bytes", scalar)

\* reset dropping only the oldest word
Reset_pop ==
    /\ built /\ Alive
    /\ data' = IF data = <<>> THEN <<>> ELSE Tail(data)
    /\ ret' = Ret("reset", "Ok", <<>>, <<>>)
    /\ UNCHANGED <<built, t, full_rounds, partial_rounds, constants, matrix>>

\* Permutation::reset
Reset ==
    /\ built /\ Alive
    /\ data' = <<>>
    /\ ret' = Ret("reset", "Ok", <<>>, <<>>)
    /\ UNCHANGED <<built, t, full_rounds, partial_rounds, constants, matrix>>

\* a call of Permutation::width_left
WidthLeft ==
    /\ built /\ Alive
    /\ ret' = Ret("width_left", "Ok", <<>>, <<width_left(self)>>)
    /\ UNCHANGED <<built, t, full_rounds, partial_rounds, data, constants, matrix>>

\* ------------------------------------------------ concrete evaluation ----
\* An evaluation threads a record through the rounds:
\*   res    "Ok", "NoMoreConstants" or "Panic" (index out of bounds)
\*   words  the working vector
\*   cur    the number of constants the cursor has yielded so far
\*   log    one entry per round entered: its kind, the table indices of the
\*          constants drawn and the 0-based word indices substituted
\*   gates  the constraint system's multiplication gates (constrained path)
RoundLog(kind, drawn, sbox) == [kind |-> kind, drawn |-> drawn, sbox |-> sbox]

\* Permutation::quintic_s_box
quintic_s_box(scalar) == Mul(Mul(Mul(Mul(scalar, scalar), scalar), scalar), scalar)

\* the constants an iterator positioned after cur yields for n requests
Drawn(p, cur, n) == [i \in 1..Min(n, Len(p.constants) - cur) |-> cur + i]

\* Permutation::add_round_key: one constant per word of the working vector,
\* NoMoreConstants as soon as the iterator is exhausted
add_round_key(p, cur, words) ==
    IF cur + Len(words) > Len(p.constants)
    THEN [res |-> "NoMoreConstants", words |-> <<>>, cur |-> Len(p.constants),
          drawn |-> Drawn(p, cur, Len(words))]
    ELSE [res |-> "Ok",
          words |-> [i \in 1..Len(words) |-> Add(words[i], p.constants[cur + i])],
          cur |-> cur + Len(words),
          drawn |-> Drawn(p, cur, Len(words))]

\* Permutation::apply_full_round
apply_full_round(p, st) ==
    LET k == add_round_key(p, st.cur, st.words)
        new_words == k.words
        quintic_words == [i \in 1..Len(new_words) |-> quintic_s_box(new_words[i])]
        sbox == IF k.res = "Ok" THEN {i - 1 : i \in 1..Len(new_words)} ELSE {}
        log == Append(st.log, RoundLog("full", k.drawn, sbox))
    IN IF k.res # "Ok"
       THEN [st EXCEPT !.res = k.res, !.words = <<>>, !.cur = k.cur, !.log = log]
       ELSE [st EXCEPT !.words = mul_vector(p.matrix, quintic_words), !.cur = k.cur, !.log = log]

\* apply_partial_round substituting word 0 before the round keys are added
apply_partial_round_sbox_first(p, st) ==
    LET words0 == IF Len(st.words) = 0 THEN st.words
                  ELSE [st.words EXCEPT ![1] = quintic_s_box(st.words[1])]
        k == add_round_key(p, st.cur, words0)
        new_words == k.words
    IN IF k.res # "Ok"
       THEN [st EXCEPT !.res = k.res, !.words = <<>>, !.cur = k.cur,
                       !.log = Append(st.log, RoundLog("partial", k.drawn, {}))]
       ELSE IF Len(new_words) = 0
       THEN [st EXCEPT !.res = "Panic", !.words = <<>>, !.cur = k.cur,
                       !.log = Append(st.log, RoundLog("partial", k.drawn, {}))]
       ELSE [st EXCEPT !.words = mul_vector(p.matrix, new_words),
                       !.cur = k.cur,
                       !.log = Append(st.log, RoundLog("partial", k.drawn, {0}))]

\* Permutation::apply_partial_round
apply_partial_round(p, st) ==
    LET k == add_round_key(p, st.cur, st.words)
        new_words == k.words
    IN IF k.res # "Ok"
       THEN [st EXCEPT !.res = k.res, !.words = <<>>, !.cur = k.cur,
                       !.log = Append(st.log, RoundLog("partial", k.drawn, {}))]
       ELSE IF Len(new_words) = 0
       THEN [st EXCEPT !.res = "Panic", !.words = <<>>, !.cur = k.cur,
                       !.log = Append(st.log, RoundLog("partial", k.drawn, {}))]
       ELSE [st EXCEPT !.words = mul_vector(p.matrix,
                                     [new_words EXCEPT ![1] = quintic_s_box(new_words[1])]),
                       !.cur = k.cur,
                       !.log = Append(st.log, RoundLog("partial", k.drawn, {0}))]

\* `for _ in 0..n { new_words = self.apply_..._round(..)?; }`
RECURSIVE full_rounds_loop(_, _, _)
full_rounds_loop(p, st, n) ==
    IF n = 0 \/ st.res # "Ok" THEN st
    ELSE full_rounds_loop(p, apply_full_round(p, st), n - 1)

RECURSIVE partial_rounds_loop(_, _, _)
partial_rounds_loop(p, st, n) ==
    IF n = 0 \/ st.res # "Ok" THEN st
    ELSE partial_rounds_loop(p, apply_partial_round(p, st), n - 1)

\* result with inclusive ranges `0..=self.full_rounds / 2`
result_inclusive(p) ==
    LET st0 == [res |-> "Ok", words |-> p.data, cur |-> 0, log |-> <<>>, gates |-> <<>>]
        st1 == full_rounds_loop(p, st0, p.full_rounds \div 2 + 1)
        st2 == partial_rounds_loop(p, st1, p.partial_rounds)
        st3 == full_rounds_loop(p, st2, p.full_rounds \div 2 + 1)
    IN st3

\* Permutation::result
result(p) ==
    LET st0 == [res |-> "Ok", words |-> p.data, cur |-> 0, log |-> <<>>, gates |-> <<>>]
        st1 == full_rounds_loop(p, st0, p.full_rounds \div 2)
        st2 == partial_rounds_loop(p, st1, p.partial_rounds)
        st3 == full_rounds_loop(p, st2, p.full_rounds \div 2)
    IN st3

\* a call of result that drains the buffer instead of cloning it
Result_drain ==
    /\ built /\ Alive
    /\ LET r == result(self)
       IN ret' = [op |-> "result", res |-> r.res, arg |-> <<>>, out |-> r.words,
                  log |-> r.log, pre |-> <<>>, cs |-> <<>>]
    /\ data' = <<>>
    /\ UNCHANGED <<built, t, full_rounds, partial_rounds, constants, matrix>>

\* a call of Permutation::result
Result ==
    /\ built /\ Alive
    /\ LET r == result(self)
       IN ret' = [op |-> "result", res |-> r.res, arg |-> <<>>, out |-> r.words,
                  log |-> r.log, pre |-> <<>>, cs |-> <<>>]
    /\ UNCHANGED <<built, t, full_rounds, partial_rounds, data, constants, matrix>>

\* ---------------------------------------------- constrained evaluation ---
\* A Variable is <<kind, index>>: a committed input "C", the wires "L", "R",
\* "O" of multiplication gate `index`, or the constant One.  A
\* LinearCombination is a sequence of <<variable, coefficient>> terms.
One == <<"One", 0>>
LCVar(v) == << <<v, 1 % P>> >>                   \* From<Variable>
LCConst(c) == << <<One, c>> >>                   \* From<Scalar>
LCAdd(a, b) == a \o b                            \* Add
LCScale(a, c) == [i \in 1..Len(a) |-> <<a[i][1], Mul(a[i][2], c)>>]  \* Mul<Scalar>

\* ConstraintSystem::multiply: allocates one gate constrained to
\* left = l, right = r, out = left * right; returns the three wires
cs_multiply(gates, l, r) ==
    LET g == Len(gates) + 1
    IN [gates |-> Append(gates, [l |-> l, r |-> r]),
        left |-> <<"L", g>>, right |-> <<"R", g>>, out |-> <<"O", g>>]

\* constrain_quintic_s_box reaching x^5 as x^2 * x -> x^3, x^3 * x^2 -> x^5
constrain_quintic_s_box_cube(lc, gates) ==
    LET m1 == cs_multiply(gates, lc, lc)
        lc1 == m1.left
        square == m1.out
        m2 == cs_multiply(m1.gates, LCVar(square), LCVar(lc1))
        cube == m2.out
        m3 == cs_multiply(m2.gates, LCVar(cube), LCVar(square))
        quintic == m3.out
    IN [lc |-> LCVar(quintic), gates |-> m3.gates]

\* constrain_quintic_s_box with the third gate multiplying by the square
constrain_quintic_s_box_sixth(lc, gates) ==
    LET m1 == cs_multiply(gates, lc, lc)
        square == m1.out
        m2 == cs_multiply(m1.gates, LCVar(square), LCVar(square))
        quartic == m2.out
        m3 == cs_multiply(m2.gates, LCVar(quartic), LCVar(square))
        quintic == m3.out
    IN [lc |-> LCVar(quintic), gates |-> m3.gates]

\* Permutation::constrain_quintic_s_box
constrain_quintic_s_box(lc, gates) ==
    LET m1 == cs_multiply(gates, lc, lc)
        lc1 == m1.left
        square == m1.out
        m2 == cs_multiply(m1.gates, LCVar(square), LCVar(square))
        quartic == m2.out
        m3 == cs_multiply(m2.gates, LCVar(quartic), LCVar(lc1))
        quintic == m3.out
    IN [lc |-> LCVar(quintic), gates |-> m3.gates]

\* constrain_add_round_key over a cycling iterator: the table wraps around
constrain_add_round_key_cycle(p, cur, words) ==
    IF Len(p.constants) = 0 /\ Len(words) > 0
    THEN [res |-> "NoMoreConstants", words |-> <<>>, cur |-> 0, drawn |-> <<>>]
    ELSE [res |-> "Ok",
          words |-> [i \in 1..Len(words) |->
                        LCAdd(words[i],
                              LCConst(p.constants[((cur + i - 1) % Len(p.constants)) + 1]))],
          cur |-> cur + Len(words),
          drawn |-> [i \in 1..Len(words) |-> ((cur + i - 1) % Len(p.constants)) + 1]]

\* Permutation::constrain_add_round_key
constrain_add_round_key(p, cur, words) ==
    IF cur + Len(words) > Len(p.constants)
    THEN [res |-> "NoMoreConstants", words |-> <<>>, cur |-> Len(p.constants),
          drawn |-> Drawn(p, cur, Len(words))]
    ELSE [res |-> "Ok",
          words |-> [i \in 1..Len(words) |->
                        LCAdd(words[i], LCConst(p.constants[cur + i]))],
          cur |-> cur + Len(words),
          drawn |-> Drawn(p, cur, Len(words))]

RECURSIVE constrain_dot_product(_, _, _)
constrain_dot_product(row, b, n) ==
    IF n = 0 THEN <<>>
    ELSE LCAdd(constrain_dot_product(row, b, n - 1), LCScale(b[n], row[n]))

\* MDSMatrix::constrain_mul_vector: mul_vector over linear combinations
constrain_mul_vector(m, b) ==
    [i \in 1..Len(m) |-> constrain_dot_product(m[i], b, Min(Len(m[i]), Len(b)))]

\* `.iter().map(|word| constrain_quintic_s_box(word.clone(), cs)).collect()`
RECURSIVE constrain_quintic_words(_, _, _)
constrain_quintic_words(new_words, n, gates) ==
    IF n = 0 THEN [words |-> <<>>, gates |-> gates]
    ELSE LET prev == constrain_quintic_words(new_words, n - 1, gates)
             q == constrain_quintic_s_box(new_words[n], prev.gates)
         IN [words |-> Append(prev.words, q.lc), gates |-> q.gates]

\* Permutation::constrain_apply_full_round
constrain_apply_full_round(p, st) ==
    LET k == constrain_add_round_key(p, st.cur, st.words)
        new_words == k.words
        quintic_words == constrain_quintic_words(new_words, Len(new_words), st.gates)
        sbox == IF k.res = "Ok" THEN {i - 1 : i \in 1..Len(new_words)} ELSE {}
        log == Append(st.log, RoundLog("full", k.drawn, sbox))
    IN IF k.res # "Ok"
       THEN [st EXCEPT !.res = k.res, !.words = <<>>, !.cur = k.cur, !.log = log]
       ELSE [st EXCEPT !.words = constrain_mul_vector(p.matrix, quintic_words.words),
                       !.cur = k.cur, !.log = log, !.gates = quintic_words.gates]

\* Permutation::constrain_apply_partial_round
constrain_apply_partial_round(p, st) ==
    LET k == constrain_add_round_key(p, st.cur, st.words)
        new_words == k.words
    IN IF k.res # "Ok"
       THEN [st EXCEPT !.res = k.res, !.words = <<>>, !.cur = k.cur,
                       !.log = Append(st.log, RoundLog("partial", k.drawn, {}))]
       ELSE IF Len(new_words) = 0
       THEN [st EXCEPT !.res = "Panic", !.words = <<>>, !.cur = k.cur,
                       !.log = Append(st.log, RoundLog("partial", k.drawn, {}))]
       ELSE LET q == constrain_quintic_s_box(new_words[1], st.gates)
            IN [st EXCEPT !.words = constrain_mul_vector(p.matrix,
                                        [new_words EXCEPT ![1] = q.lc]),
                          !.cur = k.cur,
                          !.log = Append(st.log, RoundLog("partial", k.drawn, {0})),
                          !.gates = q.gates]

RECURSIVE constrain_full_rounds_loop(_, _, _)
constrain_full_rounds_loop(p, st, n) ==
    IF n = 0 \/ st.res # "Ok" THEN st
    ELSE constrain_full_rounds_loop(p, constrain_apply_full_round(p, st), n - 1)

RECURSIVE constrain_partial_rounds_loop(_, _, _)
constrain_partial_rounds_loop(p, st, n) ==
    IF n = 0 \/ st.res # "Ok" THEN st
    ELSE constrain_partial_rounds_loop(p, constrain_apply_partial_round(p, st), n - 1)

\* constrain_result running the partial rounds before the first full rounds
constrain_result_partial_first(p, gates, words) ==
    LET st0 == [res |-> "Ok", words |-> [i \in 1..Len(words) |-> LCVar(words[i])],
                cur |-> 0, log |-> <<>>, gates |-> gates]
        st1 == constrain_partial_rounds_loop(p, st0, p.partial_rounds)
        st2 == constrain_full_rounds_loop(p, st1, p.full_rounds \div 2)
        st3 == constrain_full_rounds_loop(p, st2, p.full_rounds \div 2)
    IN st3

\* Permutation::constrain_result
constrain_result(p, gates, words) ==
    LET st0 == [res |-> "Ok", words |-> [i \in 1..Len(words) |-> LCVar(words[i])],
                cur |-> 0, log |-> <<>>, gates |-> gates]
        st1 == constrain_full_rounds_loop(p, st0, p.full_rounds \div 2)
        st2 == constrain_partial_rounds_loop(p, st1, p.partial_rounds)
        st3 == constrain_full_rounds_loop(p, st2, p.full_rounds \div 2)
    IN st3

\* a constraint system in which the caller has already allocated k gates
PreSystem(k) == [i \in 1..k |-> [l |-> LCConst(1 % P), r |-> LCConst(1 % P)]]

\* The caller passes a constraint system holding k gates and n committed
\* variables.
ConstrainResult(n, k) ==
    /\ built /\ Alive
    /\ LET gates == PreSystem(k)
           words == [i \in 1..n |-> <<"C", i>>]
           r == constrain_result(self, gates, words)
       IN ret' = [op |-> "constrain_result", res |-> r.res, arg |-> <<n>>,
                  out |-> r.words, log |-> r.log, pre |-> gates, cs |-> r.gates]
    /\ UNCHANGED <<built, t, full_rounds, partial_rounds, data, constants, matrix>>

\* The values of the gate wires under the assignment that satisfies every
\* gate, given the values the committed variables are bound to.
VarValue(v, vals, wires) ==
    IF v = One THEN 1 % P
    ELSE IF v[1] = "C" THEN vals[v[2]]
    ELSE IF v[1] = "L" THEN wires[v[2]].l
    ELSE IF v[1] = "R" THEN wires[v[2]].r
    ELSE wires[v[2]].o

RECURSIVE EvalLCAcc(_, _, _, _)
EvalLCAcc(lc, n, vals, wires) ==
    IF n = 0 THEN 0
    ELSE Add(EvalLCAcc(lc, n - 1, vals, wires),
             Mul(lc[n][2], VarValue(lc[n][1], vals, wires)))

EvalLC(lc, vals, wires) == EvalLCAcc(lc, Len(lc), vals, wires)

RECURSIVE Assignment(_, _, _)
Assignment(gates, n, vals) ==
    IF n = 0 THEN <<>>
    ELSE LET wires == Assignment(gates, n - 1, vals)
             l == EvalLC(gates[n].l, vals, wires)
             r == EvalLC(gates[n].r, vals, wires)
         IN Append(wires, [l |-> l, r |-> r, o |-> Mul(l, r)])

EvalLCs(lcs, gates, vals) ==
    LET wires == Assignment(gates, Len(gates), vals)
    IN [i \in 1..Len(lcs) |-> EvalLC(lcs[i], vals, wires)]

Next ==
    \/ \E w \in 0..MaxWidth, fr \in 0..MaxFullRounds, pr \in 0..MaxPartialRounds : New(w, fr, pr)
    \/ \E scalars \in SeqsUpTo(InputScalars, MaxBatch) : Inputs(scalars)
    \/ \E scalar \in InputScalars : Input(scalar)
    \/ \E bytes \in ByteStrings : InputBytes(bytes)
    \/ Reset
    \/ WidthLeft
    \/ Result
    \/ \E n \in 0..MaxVars, k \in {0, MaxPreGates} : ConstrainResult(n, k)

\* ------------------------------------------------------------ claims -----
SingleInputOps == {"input", "input_bytes"}
EvalOps == {"result", "constrain_result"}

\* C1: when constrain_result is called with as many variables as the buffer
\* holds words, bound to the buffer's values, it ends like result() on that
\* buffer (Ok or the same error), its rounds have the same kinds in the same
\* order, draw the same constants and substitute the same word indices, and
\* the returned linear combinations evaluate to the words result() returns.
C1_ConcreteConstrainedEquivalence ==
    (built /\ ret.op = "constrain_result" /\ ret.arg = <<Len(data)>>) =>
        LET r == result(self)
        IN /\ ret.res = r.res
           /\ ret.log = r.log
           /\ ret.res = "Ok" => EvalLCs(ret.out, ret.cs, data) = r.words

C1_Witness ==
    /\ ret.op = "constrain_result" /\ ret.res = "Ok"
    /\ ret.arg = <<Len(data)>> /\ Len(data) = 2
    /\ full_rounds = 2 /\ partial_rounds = 2
    /\ Len(ret.pre) > 0
    /\ data[1] # data[2]

\* C2: the buffer never holds more than width words, so width_left() does
\* not underflow.
C2_BufferWithinWidth ==
    /\ Len(data) <= t
    /\ width_left(self) >= 0
    /\ ret.op = "width_left" => ret.out[1] >= 0

C2_Witness ==
    /\ t = 2 /\ Len(data) = t
    /\ ret.op \in SingleInputOps \cup {"inputs"} /\ ret.res = "InputFull"

\* C3: a successful result() returns exactly as many words as the buffer
\* holds.
C3_ResultLength ==
    (ret.op = "result" /\ ret.res = "Ok") => Len(ret.out) = Len(data)

\* C4: with a table of exactly width * (full_rounds + partial_rounds)
\* constants, result() never ends with NoMoreConstants and never asks the
\* cursor for an index past the table.
C4_NeverNoMoreConstants ==
    built =>
        /\ Len(constants) = t * (full_rounds + partial_rounds)
        /\ ret.op = "result" =>
              /\ ret.res # "NoMoreConstants"
              /\ \A i \in 1..Len(ret.log) : Len(ret.log[i].drawn) <= t
              /\ \A i \in 1..Len(ret.log) : \A j \in 1..Len(ret.log[i].drawn) :
                     ret.log[i].drawn[j] <= Len(constants)

C4_Witness ==
    /\ ret.op = "result" /\ ret.res = "Ok"
    /\ t = 2 /\ Len(data) = t /\ full_rounds = 2 /\ partial_rounds = 2
    /\ Len(ret.log) = 4
    /\ ret.log[4].drawn = <<7, 8>>

\* C5: inputs(scalars) fails with InputFull exactly when the batch does not
\* fit, and then leaves the buffer as it was; otherwise it succeeds and the
\* buffer is the old buffer followed by the batch.
C5_InputsAllOrNothing ==
    [][ret'.op = "inputs" =>
          /\ (ret'.res = "InputFull") <=> (Len(ret'.arg) + Len(data) > t)
          /\ ret'.res = "InputFull" => data' = data
          /\ ret'.res # "InputFull" => (ret'.res = "Ok" /\ data' = data \o ret'.arg)]_vars

C5_Witness ==
    /\ ret.op = "inputs" /\ ret.res = "InputFull"
    /\ Len(data) = 1 /\ Len(ret.arg) = 2 /\ t = 2

\* C6: input(scalar) and input_bytes(bytes) fail with InputFull exactly when
\* the buffer holds width words, and then leave it as it was; otherwise they
\* succeed and append exactly the one element.
C6_InputOneElement ==
    [][ret'.op \in SingleInputOps =>
          /\ Len(ret'.arg) = 1
          /\ ret'.op = "input_bytes" =>
                 ret'.arg[1] \in {hash_from_bytes(b) : b \in ByteStrings}
          /\ (ret'.res = "InputFull") <=> (Len(data) = t)
          /\ ret'.res = "InputFull" => data' = data
          /\ ret'.res # "InputFull" =>
                 /\ ret'.res = "Ok"
                 /\ data' = Append(data, ret'.arg[1])
                 /\ Len(data') = Len(data) + 1]_vars

C6_Witness ==
    /\ ret.op = "input_bytes" /\ ret.res = "Ok"
    /\ Len(data) = 2 /\ data[2] = ret.arg[1] /\ data[2] \notin InputScalars

\* C7: starting from width_left() = width on an empty buffer, every
\* successful single-element input lowers width_left() by exactly one, and an
\* input fails with InputFull exactly when width_left() is 0; so exactly
\* width consecutive inputs succeed and the next one fails.
C7_CapacityCountdown ==
    [][/\ data' = <<>> => t' - Len(data') = t'
       /\ ret'.op \in SingleInputOps =>
          /\ (ret'.res = "InputFull") <=> (width_left(self) = 0)
          /\ ret'.res = "Ok" => t' - Len(data') = width_left(self) - 1
          /\ ret'.res = "InputFull" => t' - Len(data') = 0]_vars

C7_Witness ==
    /\ ret.op = "input" /\ ret.res = "InputFull"
    /\ t = 2 /\ width_left(self) = 0

\* C8: reset() empties the buffer, so width_left() equals width, and from
\* then on every single-element input made while fewer than width words are
\* buffered succeeds; failed input calls before the reset change nothing.
C8_ResetThenFill ==
    [][/\ ret'.op = "reset" =>
              (ret'.res = "Ok" /\ data' = <<>> /\ t' = t /\ t' - Len(data') = t)
       /\ (ret.op = "reset" /\ ret'.op \in SingleInputOps /\ t > 0) => ret'.res = "Ok"
       /\ (ret'.op \in SingleInputOps /\ Len(data) < t) =>
              (ret'.res = "Ok" /\ Len(data') = Len(data) + 1)]_vars

C8_Witness ==
    /\ ret.op = "reset" /\ data = <<>> /\ t = 2 /\ width_left(self) = 2

\* C9: new() fails with FullRoundsOdd, producing no instance, exactly when
\* full_rounds is odd; for an even full_rounds (0 included) it returns an
\* instance with an empty buffer and the given width and round counts.
C9_NewParity ==
    ret.op = "new" =>
        /\ (ret.res = "FullRoundsOdd") <=> (ret.arg[2] % 2 = 1)
        /\ ret.res = "FullRoundsOdd" => ~built
        /\ ret.res # "FullRoundsOdd" =>
              /\ ret.res = "Ok" /\ built /\ data = <<>>
              /\ t = ret.arg[1] /\ full_rounds = ret.arg[2] /\ partial_rounds = ret.arg[3]

C9_Witness ==
    ret.op = "new" /\ ret.res = "Ok" /\ ret.arg[2] = 0 /\ ret.arg[3] = 1 /\ built

\* C10: result() and constrain_result() leave the buffer, the width, the
\* round counts, the constant table and the matrix unchanged whether they
\* succeed or fail, the first constant they draw is the first of the table,
\* and a result() right after a result() returns the same.
C10_EvaluationFrame ==
    [][/\ ret'.op \in EvalOps =>
              /\ UNCHANGED <<built, t, full_rounds, partial_rounds, data, constants, matrix>>
              /\ (ret'.log # <<>> /\ ret'.log[1].drawn # <<>>) => ret'.log[1].drawn[1] = 1
       /\ (ret.op = "result" /\ ret'.op = "result") => ret' = ret]_vars

C10_Witness ==
    /\ ret.op = "result" /\ ret.res = "Ok"
    /\ t = 2 /\ Len(data) = 2 /\ ret.log # <<>> /\ ret.log[1].drawn = <<1, 2>>

\* the table indices an evaluation drew, in the order it drew them
RECURSIVE AllDrawn(_, _)
AllDrawn(log, n) ==
    IF n = 0 THEN <<>> ELSE AllDrawn(log, n - 1) \o log[n].drawn

\* C11: a successful result() or constrain_result() runs exactly
\* full_rounds / 2 full rounds, then exactly partial_rounds partial rounds,
\* then exactly full_rounds / 2 full rounds: full_rounds + partial_rounds
\* rounds in all.
C11_RoundSchedule ==
    (ret.op \in EvalOps /\ ret.res = "Ok") =>
        /\ Len(ret.log) = full_rounds + partial_rounds
        /\ \A i \in 1..Len(ret.log) :
              ret.log[i].kind =
                  IF i <= full_rounds \div 2 THEN "full"
                  ELSE IF i <= full_rounds \div 2 + partial_rounds THEN "partial"
                  ELSE "full"

C11_Witness ==
    /\ ret.op = "constrain_result" /\ ret.res = "Ok"
    /\ full_rounds = 2 /\ partial_rounds = 2 /\ t = 2
    /\ Len(ret.log) = 4
    /\ ret.log[1].kind = "full" /\ ret.log[2].kind = "partial"
    /\ ret.log[3].kind = "partial" /\ ret.log[4].kind = "full"

\* C12: constrain_result called with more variables than the width, on an
\* instance with at least one round, ends with NoMoreConstants and returns
\* no words; the constants it drew are the table's entries once each, in
\* table order, none past the end and none twice.  Any evaluation that ends
\* with NoMoreConstants returns no words.
C12_Exhaustion ==
    /\ (ret.op = "constrain_result" /\ ret.arg[1] > t
            /\ full_rounds + partial_rounds >= 1) =>
          /\ ret.res = "NoMoreConstants"
          /\ ret.out = <<>>
          /\ AllDrawn(ret.log, Len(ret.log)) = [i \in 1..Len(constants) |-> i]
    /\ (ret.op \in EvalOps /\ ret.res = "NoMoreConstants") => ret.out = <<>>

C12_Witness ==
    /\ ret.op = "constrain_result" /\ ret.res = "NoMoreConstants"
    /\ t = 2 /\ ret.arg = <<3>> /\ full_rounds = 2 /\ partial_rounds = 1
    /\ Len(ret.log) = 3 /\ ret.log[3].drawn = <<6>>

\* C14: every round of a successful evaluation draws exactly width
\* constants, round r (from 0) the table entries r * width .. (r + 1) * width - 1
\* (1-based: r * width + 1 .. (r + 1) * width), whatever the buffer length.
C14_WidthConstantsPerRound ==
    (ret.op \in EvalOps /\ ret.res = "Ok") =>
        \A r \in 1..Len(ret.log) :
            ret.log[r].drawn = [i \in 1..t |-> (r - 1) * t + i]

\* The rounds as C15 states them, written out over the field:
\* key addition, then the fifth power (of every word in a full round, of word
\* 0 only in a partial round), then the mixing step.
Pow5(x) == (x * x * x * x * x) % P

KeyedWord(p, words, cur, i) == (words[i] + p.constants[cur + i]) % P

RefRound(p, kind, words, cur) ==
    mul_vector(p.matrix,
               [i \in 1..Len(words) |->
                   IF kind = "full" \/ i = 1
                   THEN Pow5(KeyedWord(p, words, cur, i))
                   ELSE KeyedWord(p, words, cur, i)])

RECURSIVE RefRounds(_, _, _)
RefRounds(p, log, n) ==
    IF n = 0 THEN [words |-> p.data, cur |-> 0]
    ELSE LET prev == RefRounds(p, log, n - 1)
         IN [words |-> RefRound(p, log[n].kind, prev.words, prev.cur),
             cur |-> prev.cur + Len(prev.words)]

\* C15: in every round of a successful evaluation the round keys are added
\* first, then the quintic substitution is applied (to every word in a full
\* round, to word 0 only in a partial round, the other words carrying only
\* their constant), then the vector is mixed; both for result() and, with
\* the variables bound to the buffer, for constrain_result().
C15_RoundStructure ==
    (built /\ ret.op \in EvalOps /\ ret.res = "Ok"
           /\ (ret.op = "constrain_result" => ret.arg = <<Len(data)>>)) =>
        LET ref == RefRounds(self, ret.log, Len(ret.log))
        IN /\ \A r \in 1..Len(ret.log) :
                  ret.log[r].sbox =
                      IF ret.log[r].kind = "full"
                      THEN {i - 1 : i \in 1..Len(ret.log[r].drawn)}
                      ELSE {0}
           /\ ret.op = "result" => ret.out = ref.words
           /\ ret.op = "constrain_result" =>
                  EvalLCs(ret.out, ret.cs, data) = ref.words

C15_Witness ==
    /\ ret.op = "result" /\ ret.res = "Ok"
    /\ t = 2 /\ Len(data) = 2 /\ full_rounds = 2 /\ partial_rounds = 2
    /\ ret.log[2].kind = "partial" /\ ret.log[2].sbox = {0}
    /\ ret.log[1].kind = "full" /\ ret.log[1].sbox = {0, 1}

\* the number of substitutions an evaluation logged
RECURSIVE SBoxCount(_, _)
SBoxCount(log, n) ==
    IF n = 0 THEN 0 ELSE SBoxCount(log, n - 1) + Cardinality(log[n].sbox)

\* values the caller may bind n committed variables to
TestVals(n) == {[i \in 1..n |-> (c + i * d) % P] : c \in Scalar, d \in {0, 1}}

\* the first gates of the substitutions a call allocated after its pre gates
FirstGates(pre, cs) == {g \in (Len(pre) + 1)..Len(cs) : (g - Len(pre)) % 3 = 1}

LCVars(lc) == {lc[i][1] : i \in 1..Len(lc)}

\* a variable a substitution's input or the call's output may mention: a
\* committed variable, One, or the output wire of a substitution's third gate
IsWordVar(v, pre) ==
    \/ v = One
    \/ v[1] = "C"
    \/ v[1] = "O" /\ v[2] > Len(pre) /\ (v[2] - Len(pre)) % 3 = 0

\* C16: every constrained substitution allocates exactly three gates, in the
\* order x * x -> x^2, x^2 * x^2 -> x^4, x^4 * x -> x^5 (the last operand
\* being the first gate's left wire, which the gate constrains to x); what it
\* returns is the third gate's output wire, and under the satisfying
\* assignment that wire is x^5, for the values x takes (0 and 1 included).
C16_QuinticGates ==
    ret.op = "constrain_result" =>
        /\ Len(ret.cs) - Len(ret.pre) = 3 * SBoxCount(ret.log, Len(ret.log))
        /\ \A g \in FirstGates(ret.pre, ret.cs) :
              /\ ret.cs[g].l = ret.cs[g].r
              /\ \A v \in LCVars(ret.cs[g].l) : IsWordVar(v, ret.pre)
              /\ ret.cs[g + 1].l = LCVar(<<"O", g>>)
              /\ ret.cs[g + 1].r = LCVar(<<"O", g>>)
              /\ ret.cs[g + 2].l = LCVar(<<"O", g + 1>>)
              /\ ret.cs[g + 2].r = LCVar(<<"L", g>>)
        /\ \A i \in 1..Len(ret.out) : \A v \in LCVars(ret.out[i]) : IsWordVar(v, ret.pre)
        /\ \A vals \in TestVals(ret.arg[1]) :
              LET wires == Assignment(ret.cs, Len(ret.cs), vals)
              IN \A g \in FirstGates(ret.pre, ret.cs) :
                    LET x == EvalLC(ret.cs[g].l, vals, wires)
                    IN /\ wires[g].o = (x * x) % P
                       /\ wires[g + 1].o = (x * x * x * x) % P
                       /\ wires[g + 2].r = x
                       /\ wires[g + 2].o = (x * x * x * x * x) % P
                       /\ wires[g + 2].o = quintic_s_box(x)

C16_Witness ==
    /\ ret.op = "constrain_result" /\ ret.res = "Ok"
    /\ ret.arg = <<2>> /\ t = 2 /\ full_rounds = 2 /\ partial_rounds = 2
    /\ Len(ret.pre) = 1 /\ Len(ret.cs) = 19
    /\ \A x \in {0, 1, 2} :
          \E vals \in TestVals(2) : \E g \in FirstGates(ret.pre, ret.cs) :
              EvalLC(ret.cs[g].l, vals, Assignment(ret.cs, Len(ret.cs), vals)) = x

\* C17: a successful constrain_result over n variables grows the constraint
\* system by exactly 3 * (full_rounds * n + partial_rounds) gates.
C17_GateCount ==
    (ret.op = "constrain_result" /\ ret.res = "Ok") =>
        Len(ret.cs) - Len(ret.pre) =
            3 * (full_rounds * ret.arg[1] + partial_rounds)

\* C18: when constrain_result ends with NoMoreConstants the constraint
\* system holds the gates it held when the call was made.
C18_NoPartialMutation ==
    (ret.op = "constrain_result" /\ ret.res = "NoMoreConstants") => ret.cs = ret.pre

\* C19: result() and constrain_result() always return (Ok or a PermError):
\* the index of word 0 in a partial round never aborts the evaluation.
C19_NeverAborts ==
    (ret.op \in EvalOps /\ partial_rounds > 0) => ret.res \in {"Ok", "NoMoreConstants"}

Spec == Init /\ [][Next]_vars

====
